---- MODULE Spec2Model ----
(***************************************************************************)
(* Model of the item store of silverlock-diary (src/dashboard.py):         *)
(* FileSystemManager, HistoryManager (RecencyIndex), PinManager (PinIndex) *)
(* and the MainWindow handlers that compose them.                          *)
(*                                                                         *)
(* Strings are sequences of one-character strings, so that str.startswith, *)
(* os.path.join/dirname/basename and str.strip are computed as Python      *)
(* computes them.  The filesystem is the set of directories below the      *)
(* content root "data", each named by its path relative to the working     *)
(* directory.  The credential file of a File item (content.bin) is kept in *)
(* a map of its own; the payload file is not modelled.                     *)
(***************************************************************************)
EXTENDS Integers, Sequences, FiniteSets, TLC

(* ---------------------------- bounds ----------------------------------- *)
MaxItems == 2      \* directories below the content root
MaxClock == 2      \* timestamps handed out to touch / pin
MaxEntries == 3    \* entries of a directory found at start

(* ---------------------------- strings ---------------------------------- *)
SEP   == <<"/">>
MARK  == <<"-", "_", "_">>
DATA  == <<"d", "a", "t", "a">>
ROOT  == DATA \o SEP
CWD   == <<"/", "w">>
nA    == <<"A">>
nB    == <<"B">>
nAB   == <<"A", "B">>
nMarkB == MARK \o nB
nEmpty == <<>>
nBad   == <<"A", "?">>
nPadB  == <<" ", "B">>

startswith(s, p) == Len(p) <= Len(s) /\ SubSeq(s, 1, Len(p)) = p

Contains(s, c) == \E i \in 1..Len(s) : s[i] = c

RECURSIVE lstrip(_)
lstrip(s) == IF s # <<>> /\ s[1] = " " THEN lstrip(Tail(s)) ELSE s

RECURSIVE rstrip(_, _)
rstrip(s, c) ==
    IF s # <<>> /\ s[Len(s)] = c THEN rstrip(SubSeq(s, 1, Len(s) - 1), c) ELSE s

strip(s) == rstrip(lstrip(s), " ")

LastSep(p) ==
    IF Contains(p, "/")
    THEN CHOOSE i \in 1..Len(p) : p[i] = "/" /\ \A j \in (i+1)..Len(p) : p[j] # "/"
    ELSE 0

basename(p) == SubSeq(p, LastSep(p) + 1, Len(p))

dirname(p) ==
    LET head == SubSeq(p, 1, LastSep(p))
    IN  IF rstrip(head, "/") = <<>> THEN head ELSE rstrip(head, "/")

join(a, b) ==
    IF b # <<>> /\ b[1] = "/" THEN b
    ELSE IF a = <<>> \/ a[Len(a)] = "/" THEN a \o b
    ELSE a \o SEP \o b

\* code points of the characters in use, for Python's string comparison
ord(c) ==
    CASE c = " " -> 32 [] c = "-" -> 45 [] c = "/" -> 47 [] c = "?" -> 63
      [] c = "A" -> 65 [] c = "B" -> 66 [] c = "_" -> 95 [] c = "a" -> 97
      [] c = "b" -> 98 [] c = "c" -> 99 [] c = "d" -> 100 [] c = "t" -> 116
      [] c = "w" -> 119 [] c = "x" -> 120
      [] OTHER -> 0

lowerChar(c) == CASE c = "A" -> "a" [] c = "B" -> "b" [] OTHER -> c

lower(s) == [i \in 1..Len(s) |-> lowerChar(s[i])]

RECURSIVE StrLess(_, _)
StrLess(s, t) ==
    IF t = <<>> THEN FALSE
    ELSE IF s = <<>> THEN TRUE
    ELSE IF s[1] # t[1] THEN ord(s[1]) < ord(t[1])
    ELSE StrLess(Tail(s), Tail(t))

(* ---------------------------- filesystem ------------------------------- *)
\* the absolute spelling of a path below the working directory
abspath(p) == IF p # <<>> /\ p[1] = "/" THEN p ELSE CWD \o SEP \o p

\* the directory a path string denotes, as a path relative to the working
\* directory without trailing separator
Resolve(p) ==
    LET q == rstrip(p, "/")
    IN  IF startswith(q, CWD \o SEP) THEN SubSeq(q, Len(CWD) + 2, Len(q)) ELSE q

Dirs(tree) == tree \cup {DATA}

exists(tree, p) == Resolve(p) \in Dirs(tree)

Under(p, top) == startswith(p, top \o SEP)

Subtree(tree, top) == {p \in tree : p = top \/ Under(p, top)}

Bounded(tree) == Cardinality(tree) <= MaxItems

\* os.makedirs(path, exist_ok=True): the directory and every directory
\* above it that is missing
makedirs(tree, path) ==
    LET q == Resolve(path)
    IN  tree \cup {SubSeq(q, 1, k) :
                     k \in {j \in 1..Len(q) : /\ j > Len(DATA) + 1
                                              /\ (j = Len(q) \/ q[j + 1] = "/")}}

\* os.rename(src, dst) of a directory: [ok, tree]
os_rename(tree, src, dst, ioerr) ==
    LET s == Resolve(src)
        d == Resolve(dst)
    IN  IF \/ ioerr
           \/ s \notin tree
           \/ dirname(d) \notin Dirs(tree)
           \/ d = s \/ Under(d, s)
           \/ d \in Dirs(tree)
        THEN [ok |-> FALSE, tree |-> tree]
        ELSE [ok |-> TRUE,
              tree |-> {IF p = s \/ Under(p, s)
                        THEN d \o SubSeq(p, Len(s) + 1, Len(p)) ELSE p : p \in tree}]

\* shutil.rmtree(path): children are removed before their parent, so a
\* failure leaves the directory itself and any part of what was below it
rmtree(tree, path, gone) ==
    LET s == Resolve(path)
    IN  IF s \notin tree THEN [ok |-> FALSE, tree |-> tree]
        ELSE IF gone \cap tree = Subtree(tree, s) THEN [ok |-> TRUE, tree |-> tree \ gone]
        ELSE [ok |-> FALSE, tree |-> tree \ gone]

\* what a call of rmtree may have removed when it returns or raises
RmtreeOutcomes(tree, path) ==
    LET s == Resolve(path)
    IN  {g \in SUBSET Subtree(tree, s) :
            \/ g = Subtree(tree, s)
            \/ /\ s \notin g
               /\ \A p \in g : \A q \in Subtree(tree, s) : Under(q, p) => q \in g}

(* ---------------------------- items ------------------------------------ *)
FileItem(name, full_path) ==
    [name |-> name, full_path |-> full_path, item_type |-> "file"]

FolderItem(name, full_path) ==
    [name |-> name, full_path |-> full_path, item_type |-> "folder"]

display_name(item) ==
    IF item.item_type = "folder" /\ startswith(item.name, MARK)
    THEN SubSeq(item.name, Len(MARK) + 1, Len(item.name))
    ELSE item.name

\* variant: the names are compared as they are spelled
KeyLess_cased(x, y) ==
    \/ x.item_type = "folder" /\ y.item_type = "file"
    \/ /\ x.item_type = y.item_type
       /\ StrLess(display_name(x), display_name(y))

\* sort key of scan_directory: (item_type == 'file', display_name.lower())
KeyLess(x, y) ==
    \/ x.item_type = "folder" /\ y.item_type = "file"
    \/ /\ x.item_type = y.item_type
       /\ StrLess(lower(display_name(x)), lower(display_name(y)))

RECURSIVE InsertByKey(_, _)
InsertByKey(sorted, x) ==
    IF sorted = <<>> THEN <<x>>
    ELSE IF KeyLess(x, Head(sorted)) THEN <<x>> \o sorted
    ELSE <<Head(sorted)>> \o InsertByKey(Tail(sorted), x)

RECURSIVE SortByKey(_)
SortByKey(list) ==
    IF list = <<>> THEN <<>>
    ELSE InsertByKey(SortByKey(SubSeq(list, 1, Len(list) - 1)), list[Len(list)])

Entries(tree, base_path) == {p \in tree : dirname(p) = Resolve(base_path)}

\* the orders in which os.scandir may enumerate a directory
Orders(tree, base_path) ==
    LET E == Entries(tree, base_path)
    IN  {o \in [1..Cardinality(E) -> E] : \A i, j \in DOMAIN o : o[i] = o[j] => i = j}

ScanItem(base_path, p) ==
    LET name == basename(p)
    IN  IF startswith(name, MARK)
        THEN FolderItem(name, join(base_path, name))
        ELSE FileItem(name, join(base_path, name))

\* FileSystemManager.scan_directory: [list, map]; a missing directory
\* returns [] before the name map is cleared
scan_directory(tree, base_path, order, old_map) ==
    IF ~exists(tree, base_path) THEN [list |-> <<>>, map |-> old_map]
    ELSE LET scanned == [i \in DOMAIN order |-> ScanItem(base_path, order[i])]
             keys    == {display_name(scanned[i]) : i \in DOMAIN scanned}
             lastOf(k) == CHOOSE i \in DOMAIN scanned :
                              /\ display_name(scanned[i]) = k
                              /\ \A j \in DOMAIN scanned :
                                     display_name(scanned[j]) = k => j <= i
         IN  [list |-> SortByKey(scanned),
              map  |-> [k \in keys |-> scanned[lastOf(k)]]]

(* ---------------------------- indexes ---------------------------------- *)
HISTORY_LIMIT == 50
PIN_LIMIT     == 20

\* variant: nothing is cut off
Truncate_nothing(list, n) == list

Truncate(list, n) == SubSeq(list, 1, IF Len(list) < n THEN Len(list) ELSE n)

\* [item for item in list if item.full_path != file_path]
RECURSIVE Without(_, _)
Without(list, file_path) ==
    IF list = <<>> THEN <<>>
    ELSE IF Head(list).full_path # file_path
    THEN <<Head(list)>> \o Without(Tail(list), file_path)
    ELSE Without(Tail(list), file_path)

Paths(list) == {list[i].full_path : i \in DOMAIN list}

\* list.sort(key = timestamp, reverse = True), a stable sort
RECURSIVE InsertHistory(_, _)
InsertHistory(sorted, x) ==
    IF sorted = <<>> THEN <<x>>
    ELSE IF Head(sorted).last_accessed < x.last_accessed THEN <<x>> \o sorted
    ELSE <<Head(sorted)>> \o InsertHistory(Tail(sorted), x)

RECURSIVE SortHistory(_)
SortHistory(list) ==
    IF list = <<>> THEN <<>>
    ELSE InsertHistory(SortHistory(SubSeq(list, 1, Len(list) - 1)), list[Len(list)])

RECURSIVE InsertPinned(_, _)
InsertPinned(sorted, x) ==
    IF sorted = <<>> THEN <<x>>
    ELSE IF Head(sorted).pinned_at < x.pinned_at THEN <<x>> \o sorted
    ELSE <<Head(sorted)>> \o InsertPinned(Tail(sorted), x)

RECURSIVE SortPinned(_)
SortPinned(list) ==
    IF list = <<>> THEN <<>>
    ELSE InsertPinned(SortPinned(SubSeq(list, 1, Len(list) - 1)), list[Len(list)])

\* variant: the list is not sorted again after the update
add_file_to_history_unsorted(history, file_item, current_time) ==
    LET hit == {i \in DOMAIN history : history[i].full_path = file_item.full_path}
        first == CHOOSE i \in hit : \A j \in hit : i <= j
        updated ==
            IF hit # {}
            THEN [history EXCEPT ![first].last_accessed = current_time]
            ELSE Append(history, [name |-> display_name(file_item),
                                  full_path |-> file_item.full_path,
                                  last_accessed |-> current_time])
    IN  Truncate(updated, HISTORY_LIMIT)

\* HistoryManager.add_file_to_history
add_file_to_history(history, file_item, current_time) ==
    LET hit == {i \in DOMAIN history : history[i].full_path = file_item.full_path}
        first == CHOOSE i \in hit : \A j \in hit : i <= j
        updated ==
            IF hit # {}
            THEN [history EXCEPT ![first].last_accessed = current_time]
            ELSE Append(history, [name |-> display_name(file_item),
                                  full_path |-> file_item.full_path,
                                  last_accessed |-> current_time])
    IN  Truncate(SortHistory(updated), HISTORY_LIMIT)

\* HistoryManager.remove_item
remove_item(history, file_path) ==
    Without(history, file_path)

\* PinManager.is_pinned
is_pinned(pinned, file_path) == file_path \in Paths(pinned)

\* variant: a pin does not look for a record of the path first
pin_file_item_again(pinned, file_item, current_time) ==
    [ok |-> TRUE,
     pinned |-> Truncate(SortPinned(Append(pinned,
                    [name |-> display_name(file_item),
                     full_path |-> file_item.full_path,
                     pinned_at |-> current_time])), PIN_LIMIT)]

\* PinManager.pin_file_item: [ok, pinned]
pin_file_item(pinned, file_item, current_time) ==
    IF is_pinned(pinned, file_item.full_path) THEN [ok |-> FALSE, pinned |-> pinned]
    ELSE [ok |-> TRUE,
          pinned |-> Truncate(SortPinned(Append(pinned,
                         [name |-> display_name(file_item),
                          full_path |-> file_item.full_path,
                          pinned_at |-> current_time])), PIN_LIMIT)]

\* PinManager.unpin_file
unpin_file(pinned, file_path) ==
    Without(pinned, file_path)

\* HistoryManager.update_path and PinManager.update_path (same body)
update_path(list, old_path, new_path) ==
    [i \in DOMAIN list |->
        IF list[i].full_path = old_path
        THEN [list[i] EXCEPT
                !.full_path = new_path,
                !.name = IF list[i].name = basename(old_path)
                         THEN basename(new_path) ELSE list[i].name]
        ELSE list[i]]

\* HistoryManager.load_history / PinManager.load_pins on a readable file
load_history(data) == SortHistory(data)
load_pins(data) == SortPinned(data)

\* an index file that is not there, and one json.load or from_dict raises on
MISSING   == <<[absent |-> TRUE]>>
MALFORMED == <<[malformed |-> TRUE]>>

\* HistoryManager.load_history / PinManager.load_pins: no file and any
\* exception give the empty list
HistoryManager_load_history(file) ==
    IF file = MISSING \/ file = MALFORMED THEN <<>> ELSE load_history(file)

PinManager_load_pins(file) ==
    IF file = MISSING \/ file = MALFORMED THEN <<>> ELSE load_pins(file)

\* how open(..., 'w') and json.dump end: all written, open raised, or dump
\* raised part-way
SaveOutcomes == {"written", "unchanged", "torn"}

\* variant: the file is left as it was
save_history_nothing(file, list, w) == file

\* HistoryManager.save_history / PinManager.save_pins: the file after the
\* call; the except clause prints and returns
save_history(file, list, w) ==
    CASE w = "written"   -> list
      [] w = "unchanged" -> file
      [] OTHER           -> MALFORMED

save_pins(file, list, w) ==
    CASE w = "written"   -> list
      [] w = "unchanged" -> file
      [] OTHER           -> MALFORMED

\* HistoryManager.clear_history / PinManager.clear_pins
clear_history(history) == <<>>
clear_pins(pinned) == <<>>

(* ---------------------------- dialogs ---------------------------------- *)
invalid_chars == {"/", "\\", ":", "*", "?", "\"", "<", ">", "|"}

HasInvalidChar(name) == \E i \in 1..Len(name) : name[i] \in invalid_chars

\* RenameDialog.accept_dialog: [accepted, new_name]
RenameDialog_accept_dialog(current_name, text) ==
    LET new_name == strip(text)
    IN  IF new_name = <<>> \/ new_name = current_name \/ HasInvalidChar(new_name)
        THEN [accepted |-> FALSE, new_name |-> <<>>]
        ELSE [accepted |-> TRUE, new_name |-> new_name]

\* MoveDialog.accept_dialog: [accepted, selected_path]; current_path is the
\* full_path of the item being moved, selection <<>> is "nothing selected"
MoveDialog_accept_dialog(item_path, item_type, selection) ==
    LET selected_path == IF selection = <<>> THEN DATA ELSE selection
    IN  IF selected_path = dirname(item_path)
        THEN [accepted |-> FALSE, selected_path |-> selected_path]
        ELSE IF item_type = "folder" /\ startswith(selected_path, item_path)
        THEN [accepted |-> FALSE, selected_path |-> selected_path]
        ELSE [accepted |-> TRUE, selected_path |-> selected_path]

\* what MoveDialog.on_selection_changed can store: the tree view lists the
\* directories below "data" (here: the content root and the Folder items);
\* nothing selected is <<>>
TargetDirs(tree) == {t \in Dirs(tree) : t = DATA \/ startswith(basename(t), MARK)}

\* the selected directory spelled relative to the working directory
RelSelections(tree) == {<<>>} \cup TargetDirs(tree)

\* ... or spelled absolutely, as QFileSystemModel.filePath does
Selections(tree) == RelSelections(tree) \cup {abspath(t) : t \in TargetDirs(tree)}

(* ---------------------------- FileSystemManager ------------------------ *)
\* variant: the collision is looked for only after os.rename has run
FileSystemManager_rename_item_check_after(tree, item, new_name, ioerr) ==
    LET new_path == IF item.item_type = "folder"
                    THEN join(dirname(item.full_path), MARK \o new_name)
                    ELSE join(dirname(item.full_path), new_name)
        r == os_rename(tree, item.full_path, new_path, ioerr)
    IN  IF r.ok /\ exists(r.tree, new_path)
        THEN [success |-> FALSE, value |-> "exists", tree |-> r.tree]
        ELSE [success |-> FALSE, value |-> "error", tree |-> tree]

\* FileSystemManager.rename_item: [success, value, tree]
FileSystemManager_rename_item(tree, item, new_name, ioerr) ==
    LET new_path == IF item.item_type = "folder"
                    THEN join(dirname(item.full_path), MARK \o new_name)
                    ELSE join(dirname(item.full_path), new_name)
        r == os_rename(tree, item.full_path, new_path, ioerr)
    IN  IF exists(tree, new_path)
        THEN [success |-> FALSE, value |-> "exists", tree |-> tree]
        ELSE IF r.ok
        THEN [success |-> TRUE, value |-> new_path, tree |-> r.tree]
        ELSE [success |-> FALSE, value |-> "error", tree |-> tree]

\* variant: a move that does not look whether the destination lies inside
\* the source
shutil_move_unguarded(tree, src, dst, ioerr) ==
    LET s == Resolve(src)
        d == Resolve(dst)
    IN  IF ioerr \/ s \notin tree \/ dirname(d) \notin Dirs(tree) \/ d \in Dirs(tree)
        THEN [ok |-> FALSE, tree |-> tree]
        ELSE [ok |-> TRUE,
              tree |-> {IF p = s \/ Under(p, s)
                        THEN d \o SubSeq(p, Len(s) + 1, Len(p)) ELSE p : p \in tree}]

\* shutil.move(src, dst) where dst does not exist: os.rename, and when that
\* raises, Error for a destination inside the source, else the OSError
shutil_move(tree, src, dst, ioerr) == os_rename(tree, src, dst, ioerr)

\* FileSystemManager.move_item: [success, value, tree]
FileSystemManager_move_item(tree, item, target_path, ioerr) ==
    LET new_path == join(target_path, basename(item.full_path))
        r == shutil_move(tree, item.full_path, new_path, ioerr)
    IN  IF exists(tree, new_path)
        THEN [success |-> FALSE, value |-> "exists", tree |-> tree]
        ELSE IF r.ok
        THEN [success |-> TRUE, value |-> new_path, tree |-> r.tree]
        ELSE [success |-> FALSE, value |-> "error", tree |-> tree]

\* FileSystemManager.delete_item: [success, tree]
FileSystemManager_delete_item(tree, item, gone) ==
    LET r == rmtree(tree, item.full_path, gone)
    IN  [success |-> r.ok, tree |-> r.tree]

\* variant: any item the name resolves to is entered
navigate_to_folder_any(map, cur, folder_name) ==
    IF folder_name \in DOMAIN map
    THEN [ok |-> TRUE, current_path |-> map[folder_name].full_path \o SEP]
    ELSE [ok |-> FALSE, current_path |-> cur]

\* FileSystemManager.get_item / navigate_to_folder: [ok, current_path]
navigate_to_folder(map, cur, folder_name) ==
    IF folder_name \in DOMAIN map /\ map[folder_name].item_type = "folder"
    THEN [ok |-> TRUE, current_path |-> map[folder_name].full_path \o SEP]
    ELSE [ok |-> FALSE, current_path |-> cur]

\* variant: back always returns to the content root
FileSystemManager_go_back_home(cur) ==
    IF cur # ROOT THEN [ok |-> TRUE, current_path |-> ROOT]
    ELSE [ok |-> FALSE, current_path |-> cur]

\* FileSystemManager.go_back: [ok, current_path]
FileSystemManager_go_back(cur) ==
    LET parent_path == dirname(rstrip(cur, "/"))
    IN  IF cur # ROOT
        THEN [ok |-> TRUE,
              current_path |-> IF parent_path = <<>> \/ parent_path = DATA
                               THEN ROOT ELSE parent_path \o SEP]
        ELSE [ok |-> FALSE, current_path |-> cur]

(* ---------------------------- credentials (src/hash.py) ---------------- *)
SALT_LEN == 16
KEY_LEN  == 32

\* b[lo:hi] of Python
slice(b, lo, hi) ==
    IF hi <= lo \/ Len(b) <= lo THEN <<>>
    ELSE SubSeq(b, lo + 1, IF hi < Len(b) THEN hi ELSE Len(b))

\* str.encode('utf-8') of the characters in use
encode(s) == [i \in 1..Len(s) |-> ord(s[i])]

\* the values os.urandom(16) is drawn from here
Salt(n) == [i \in 1..SALT_LEN |-> IF n = 1 THEN 7 ELSE (11 * i) % 256]
Salts == {Salt(1), Salt(2)}

\* variant: the derivation reads the first three bytes of the password only
Scrypt_derive_short(salt, data) ==
    [i \in 1..KEY_LEN |->
        ((IF i <= Len(data) /\ i <= 3 THEN data[i] ELSE 0)
         + (IF salt = <<>> THEN 0 ELSE salt[((i - 1) % Len(salt)) + 1]) + i) % 256]

\* Scrypt(salt, length=32, ...).derive(data): a deterministic function of
\* salt and data, taken to be free of collisions on data of at most 32
\* non-zero bytes
Scrypt_derive(salt, data) ==
    [i \in 1..KEY_LEN |->
        ((IF i <= Len(data) THEN data[i] ELSE 0)
         + (IF salt = <<>> THEN 0 ELSE salt[((i - 1) % Len(salt)) + 1]) + i) % 256]

\* base64 over the alphabet positions 0..63, position 64 standing for '='
RECURSIVE urlsafe_b64encode(_)
urlsafe_b64encode(b) ==
    IF b = <<>> THEN <<>>
    ELSE IF Len(b) = 1
    THEN <<b[1] \div 4, (b[1] % 4) * 16, 64, 64>>
    ELSE IF Len(b) = 2
    THEN <<b[1] \div 4, (b[1] % 4) * 16 + b[2] \div 16, (b[2] % 16) * 4, 64>>
    ELSE <<b[1] \div 4, (b[1] % 4) * 16 + b[2] \div 16,
           (b[2] % 16) * 4 + b[3] \div 64, b[3] % 64>>
         \o urlsafe_b64encode(SubSeq(b, 4, Len(b)))

\* urlsafe_b64decode raises binascii.Error on a length that is no multiple of 4
b64_raises(t) == Len(t) % 4 # 0

RECURSIVE urlsafe_b64decode(_)
urlsafe_b64decode(t) ==
    IF Len(t) < 4 THEN <<>>
    ELSE (IF t[3] = 64 THEN <<t[1] * 4 + t[2] \div 16>>
          ELSE IF t[4] = 64
          THEN <<t[1] * 4 + t[2] \div 16, (t[2] % 16) * 16 + t[3] \div 4>>
          ELSE <<t[1] * 4 + t[2] \div 16, (t[2] % 16) * 16 + t[3] \div 4,
                 (t[3] % 4) * 64 + t[4]>>)
         \o urlsafe_b64decode(SubSeq(t, 5, Len(t)))

\* hash_password, with the salt os.urandom returned
hash_password(password, salt) ==
    urlsafe_b64encode(salt \o Scrypt_derive(salt, encode(password)))

\* verify_password where it returns
verify_password(stored_hashed_password, password_to_check) ==
    LET decoded_stored == urlsafe_b64decode(stored_hashed_password)
        salt == slice(decoded_stored, 0, SALT_LEN)
    IN  Scrypt_derive(salt, encode(password_to_check))
            = slice(decoded_stored, SALT_LEN, Len(decoded_stored))

\* verify_password raises when the stored bytes do not decode
verify_raises(stored_hashed_password) == b64_raises(stored_hashed_password)

\* passwords typed into the dialogs
pwEmpty == <<>>
pwAb    == <<"a", "b">>
pwAbc   == <<"a", "b", "c">>
pwAbcx  == pwAbc \o <<"x">>
Passwords == {pwEmpty, pwAb, pwAbc, pwAbcx}

(* ---------------------------- credential files ------------------------ *)
CONTENT_BIN == <<"c", "o", "n", "t", "e", "n", "t", ".", "b", "i", "n">>
MIN_PASSWORD_LEN == 3

\* FileItem.password_file_path
password_file_path(item) ==
    join(dirname(join(item.full_path, item.name)), CONTENT_BIN)

\* save_hashed_password: open(file_path, 'wb').write(...)
save_hashed_password(files, file_path, hashed_password_with_salt) ==
    [p \in DOMAIN files \cup {Resolve(file_path)} |->
        IF p = Resolve(file_path)
        THEN [data |-> hashed_password_with_salt, readable |-> TRUE]
        ELSE files[p]]

\* the credential files after os.rename / shutil.move of a directory
rename_files(files, src, dst) ==
    LET s == Resolve(src)
        d == Resolve(dst)
        to(p) == IF Under(p, s) THEN d \o SubSeq(p, Len(s) + 1, Len(p)) ELSE p
    IN  [q \in {to(p) : p \in DOMAIN files} |->
            files[CHOOSE p \in DOMAIN files : to(p) = q]]

\* the credential files after shutil.rmtree: those unlinked, and those whose
\* directory is gone, are no longer there
remove_files(files, tree, gone) ==
    [p \in {q \in DOMAIN files : q \notin gone /\ dirname(q) \in tree} |-> files[p]]

\* SetPasswordDialog.accept_dialog: [accepted, password]
SetPasswordDialog_accept_dialog(password_text, confirm_text) ==
    LET password == strip(password_text)
        confirm  == strip(confirm_text)
    IN  [accepted |-> /\ password # <<>>
                      /\ Len(password) >= MIN_PASSWORD_LEN
                      /\ password = confirm,
         password |-> password]

(* ---------------------------- state ------------------------------------ *)
VARIABLES
    fs,             \* directories below the content root
    current_path,   \* FileSystemManager.current_path
    items,          \* FileSystemManager.items: display name -> item
    grid,           \* the item widgets shown, as returned by the last scan
    history_items,  \* HistoryManager.history_items
    pinned_items,   \* PinManager.pinned_items
    history_file,   \* contents of history.json
    pin_file,       \* contents of pinned.json
    clock,          \* the last value returned by datetime.now()
    last,           \* the last request and its outcome
    vault,          \* the credential files: path -> [data, readable]
    login_window,   \* MainWindow.login_window: <<>> or <<[item, hash]>>
    editor          \* the item open_file_content is running the editor on

vars == <<fs, current_path, items, grid, history_items, pinned_items,
          history_file, pin_file, clock, last, vault, login_window, editor>>

store == <<fs, current_path, items, grid>>
index == <<history_items, pinned_items, history_file, pin_file>>
access == <<vault, login_window, editor>>

Request(op, result, kind, old, new, arg, in_hist, in_pin) ==
    [op |-> op, result |-> result, kind |-> kind, old |-> old, new |-> new,
     arg |-> arg, in_hist |-> in_hist, in_pin |-> in_pin]

\* `last` describes the step just taken when it was a rename, move or delete
\* request; every other request resets it
Idle == Request("none", "none", "none", <<>>, <<>>, <<>>, FALSE, FALSE)

Init ==
    /\ fs = {}
    /\ current_path = ROOT
    /\ items = <<>>
    /\ grid = <<>>
    /\ history_items = <<>>
    /\ pinned_items = <<>>
    /\ history_file = <<>>
    /\ pin_file = <<>>
    /\ clock = 0
    /\ last = Idle
    /\ vault = <<>>
    /\ login_window = <<>>
    /\ editor = <<>>

\* MainWindow.populate_files over a tree and cursor
populate_files(tree, cur) ==
    \E order \in Orders(tree, cur) :
        LET r == scan_directory(tree, cur, order, items)
        IN  items' = r.map /\ grid' = r.list

\* HistoryManager.save_history / PinManager.save_pins after a mutation
SetHistory(h) == history_items' = h /\ history_file' = h
SetPins(p)    == pinned_items' = p /\ pin_file' = p

Widgets(kind) == {display_name(grid[i]) : i \in {j \in DOMAIN grid : grid[j].item_type = kind}}

(* ---------------------------- inputs ----------------------------------- *)
PlainTexts  == {nEmpty, nB, nBad, nPadB}
RenameTexts == PlainTexts \cup {nMarkB}
CreateTexts == {nA, nBad}

(* ---------------------------- navigation ------------------------------- *)
\* MainWindow.on_folder_clicked -> FileSystemManager.navigate_to_folder
on_folder_clicked(folder_name) ==
    /\ folder_name \in Widgets("folder")
    /\ IF folder_name \in DOMAIN items /\ items[folder_name].item_type = "folder"
       THEN /\ current_path' = items[folder_name].full_path \o SEP
            /\ populate_files(fs, current_path')
            /\ last' = Idle
       ELSE /\ UNCHANGED <<current_path, items, grid>>
            /\ last' = Idle
    /\ UNCHANGED <<fs, index, clock, access>>

\* MainWindow.go_back -> FileSystemManager.go_back
go_back ==
    LET r == FileSystemManager_go_back(current_path)
    IN  /\ current_path' = r.current_path
        /\ IF r.ok THEN populate_files(fs, current_path')
                   ELSE UNCHANGED <<items, grid>>
        /\ last' = Idle
        /\ UNCHANGED <<fs, index, clock, access>>

(* ---------------------------- open / touch ----------------------------- *)
\* MainWindow._open_file_with_password_check: the history is touched when
\* no credential file is found or the login succeeds
open_file_with_password_check(file_item, opened, op) ==
    /\ IF opened
       THEN /\ clock < MaxClock
            /\ clock' = clock + 1
            /\ SetHistory(add_file_to_history(history_items, file_item, clock'))
       ELSE UNCHANGED <<clock, history_items, history_file>>
    /\ last' = Idle
    /\ UNCHANGED <<store, pinned_items, pin_file, access>>

\* MainWindow.on_file_clicked
on_file_clicked(file_name, opened) ==
    /\ file_name \in Widgets("file")
    /\ IF file_name \in DOMAIN items /\ items[file_name].item_type = "file"
       THEN open_file_with_password_check(items[file_name], opened, "open")
       ELSE /\ last' = Idle
            /\ UNCHANGED <<store, index, clock, access>>

\* MainWindow.on_history_file_clicked / on_pinned_file_clicked
on_index_file_clicked(file_path, opened, op) ==
    IF exists(fs, file_path)
    THEN open_file_with_password_check(FileItem(basename(file_path), file_path), opened, op)
    ELSE /\ last' = Idle
         /\ UNCHANGED <<store, index, clock, access>>

on_history_file_clicked(file_path, opened) ==
    /\ file_path \in Paths(history_items)
    /\ on_index_file_clicked(file_path, opened, "open_history")

on_pinned_file_clicked(file_path, opened) ==
    /\ file_path \in Paths(pinned_items)
    /\ on_index_file_clicked(file_path, opened, "open_pinned")

(* ---------------------------- pin / unpin ------------------------------ *)
\* MainWindow.pin_file
MainWindow_pin_file(file_item) ==
    LET r == pin_file_item(pinned_items, file_item, clock + 1)
    IN  /\ IF r.ok
           THEN clock < MaxClock /\ clock' = clock + 1 /\ SetPins(r.pinned)
           ELSE UNCHANGED <<clock, pinned_items, pin_file>>
        /\ last' = Idle
        /\ UNCHANGED <<store, history_items, history_file, access>>

\* MainWindow.unpin_file / unpin_file_by_path
unpin(file_path, kind) ==
    /\ SetPins(unpin_file(pinned_items, file_path))
    /\ last' = Idle
    /\ UNCHANGED <<store, history_items, history_file, clock, access>>

\* MainWindow.on_file_context_menu, entry "Pin" or "Unpin"
on_file_context_menu_pin(file_name) ==
    /\ file_name \in Widgets("file") \cap DOMAIN items
    /\ IF is_pinned(pinned_items, items[file_name].full_path)
       THEN unpin(items[file_name].full_path, items[file_name].item_type)
       ELSE MainWindow_pin_file(items[file_name])

\* MainWindow.pin_file_by_path
pin_file_by_path(file_path) ==
    IF exists(fs, file_path)
    THEN MainWindow_pin_file(FileItem(basename(file_path), file_path))
    ELSE /\ last' = Idle
         /\ UNCHANGED <<store, index, clock, access>>

\* MainWindow.remove_from_history
remove_from_history(file_path) ==
    /\ SetHistory(remove_item(history_items, file_path))
    /\ last' = Idle
    /\ UNCHANGED <<store, pinned_items, pin_file, clock, access>>

\* MainWindow.on_history_context_menu: Pin / Unpin / Remove from History
on_history_context_menu(file_path, entry) ==
    /\ file_path \in Paths(history_items)
    /\ CASE entry = "pin" ->
              IF is_pinned(pinned_items, file_path)
              THEN unpin(file_path, "file") ELSE pin_file_by_path(file_path)
         [] entry = "remove" -> remove_from_history(file_path)

\* MainWindow.on_pinned_context_menu: Unpin
on_pinned_context_menu(file_path) ==
    /\ file_path \in Paths(pinned_items)
    /\ unpin(file_path, "file")

(* ---------------------------- the indexes called directly -------------- *)
\* paths of earlier sessions: data/A, data/AA, data/AAA, ...
PrePath(k) == ROOT \o [j \in 1..k |-> "A"]

\* an index file written by an earlier session: n records, the newest first,
\* all older than this session
StoredHistory(n) ==
    [k \in 1..n |-> [name |-> basename(PrePath(k)), full_path |-> PrePath(k),
                     last_accessed |-> 1 - k]]

StoredPins(n) ==
    [k \in 1..n |-> [name |-> basename(PrePath(k)), full_path |-> PrePath(k),
                     pinned_at |-> 1 - k]]

\* how far below its limit an index of an earlier session was left
Fill == {0, 1}

\* the paths the callers below pass in
IndexPaths == {PrePath(2), join(ROOT, nB)}
IndexItems == {FileItem(basename(p), p) : p \in IndexPaths}

\* the renames propagated to the indexes: onto a path that has a record,
\* and onto one that has none
PathChanges == {<<PrePath(1), PrePath(2)>>, <<join(ROOT, nB), join(ROOT, nA \o nB)>>}

\* HistoryManager() and PinManager() constructed over the stored files
InitIndex ==
    /\ fs = {}
    /\ current_path = ROOT
    /\ items = <<>>
    /\ grid = <<>>
    /\ \E k \in Fill : /\ history_file = StoredHistory(HISTORY_LIMIT - k)
                       /\ pin_file = StoredPins(PIN_LIMIT - k)
    /\ history_items = load_history(history_file)
    /\ pinned_items = load_pins(pin_file)
    /\ clock = 0
    /\ last = Idle
    /\ vault = <<>>
    /\ login_window = <<>>
    /\ editor = <<>>

\* a call of an index method, and whether the indexes held the path
Called(op, result, file_path) ==
    Request(op, result, "file", file_path, <<>>, <<>>,
            file_path \in Paths(history_items), file_path \in Paths(pinned_items))

\* HistoryManager.add_file_to_history
HistoryManager_add_file_to_history(file_item) ==
    /\ clock < MaxClock
    /\ clock' = clock + 1
    /\ SetHistory(add_file_to_history(history_items, file_item, clock'))
    /\ last' = Called("touch", "done", file_item.full_path)
    /\ UNCHANGED <<store, pinned_items, pin_file, access>>

\* PinManager.pin_file_item
PinManager_pin_file_item(file_item) ==
    LET r == pin_file_item(pinned_items, file_item, clock + 1)
    IN  /\ IF r.ok
           THEN clock < MaxClock /\ clock' = clock + 1 /\ SetPins(r.pinned)
           ELSE UNCHANGED <<clock, pinned_items, pin_file>>
        /\ last' = Called("pin", IF r.ok THEN "true" ELSE "false", file_item.full_path)
        /\ UNCHANGED <<store, history_items, history_file, access>>

\* PinManager.unpin_file
PinManager_unpin_file(file_path) ==
    /\ SetPins(unpin_file(pinned_items, file_path))
    /\ last' = Idle
    /\ UNCHANGED <<store, history_items, history_file, clock, access>>

\* HistoryManager.remove_item
HistoryManager_remove_item(file_path) ==
    /\ SetHistory(remove_item(history_items, file_path))
    /\ last' = Idle
    /\ UNCHANGED <<store, pinned_items, pin_file, clock, access>>

\* HistoryManager.update_path and PinManager.update_path, called one after
\* the other as MainWindow.rename_item and move_item do for a File item
IndexManagers_update_path(old_path, new_path) ==
    /\ SetHistory(update_path(history_items, old_path, new_path))
    /\ SetPins(update_path(pinned_items, old_path, new_path))
    /\ last' = Idle
    /\ UNCHANGED <<store, clock, access>>

(* ---------------------------- the index files written and read --------- *)
\* index files of an earlier session: none, unreadable, empty, and two
\* records stored oldest first
Reversed(list) == [i \in DOMAIN list |-> list[Len(list) + 1 - i]]
HistoryFiles == {MISSING, MALFORMED, <<>>, Reversed(StoredHistory(2))}
PinFiles == {MISSING, MALFORMED, <<>>, Reversed(StoredPins(2))}

\* the paths the index methods are called with, and the one rename
PersistPaths == {join(ROOT, nB)}
PersistItems == {FileItem(basename(p), p) : p \in PersistPaths}
PersistChanges == {<<PrePath(1), PrePath(3)>>}

InitPersist ==
    /\ fs = {}
    /\ current_path = ROOT
    /\ items = <<>>
    /\ grid = <<>>
    /\ history_file \in HistoryFiles
    /\ pin_file \in PinFiles
    /\ history_items = HistoryManager_load_history(history_file)
    /\ pinned_items = PinManager_load_pins(pin_file)
    /\ clock = 0
    /\ last = Idle
    /\ vault = <<>>
    /\ login_window = <<>>
    /\ editor = <<>>

\* a call of an index method and whether its writes went through
Wrote(op, saved, file_path) ==
    Request(op, IF saved THEN "done" ELSE "unsaved", "file", <<>>, <<>>, <<>>,
            FALSE, FALSE)

\* a method of HistoryManager that ends in save_history()
HistoryManager_call(op, history, w, file_path) ==
    /\ history_items' = history
    /\ history_file' = save_history(history_file, history, w)
    /\ last' = Wrote(op, w = "written", file_path)
    /\ UNCHANGED <<store, pinned_items, pin_file, access>>

\* a method of PinManager that ends in save_pins()
PinManager_call(op, pinned, w, file_path) ==
    /\ pinned_items' = pinned
    /\ pin_file' = save_pins(pin_file, pinned, w)
    /\ last' = Wrote(op, w = "written", file_path)
    /\ UNCHANGED <<store, history_items, history_file, access>>

HistoryManager_add_file_to_history_saving(file_item, w) ==
    /\ clock < MaxClock
    /\ clock' = clock + 1
    /\ HistoryManager_call("touch", add_file_to_history(history_items, file_item, clock'),
                           w, file_item.full_path)

HistoryManager_remove_item_saving(file_path, w) ==
    /\ HistoryManager_call("remove", remove_item(history_items, file_path), w, file_path)
    /\ UNCHANGED clock

HistoryManager_clear_history(w) ==
    /\ HistoryManager_call("clear_history", clear_history(history_items), w, <<>>)
    /\ UNCHANGED clock

\* pin_file_item returns False without saving when the path is pinned
PinManager_pin_file_item_saving(file_item, w) ==
    LET r == pin_file_item(pinned_items, file_item, clock + 1)
    IN  IF r.ok
        THEN /\ clock < MaxClock
             /\ clock' = clock + 1
             /\ PinManager_call("pin", r.pinned, w, file_item.full_path)
        ELSE /\ last' = Request("pin", "false", "file", <<>>, <<>>, <<>>,
                                FALSE, FALSE)
             /\ UNCHANGED <<store, index, clock, access>>

PinManager_unpin_file_saving(file_path, w) ==
    /\ PinManager_call("unpin", unpin_file(pinned_items, file_path), w, file_path)
    /\ UNCHANGED clock

PinManager_clear_pins(w) ==
    /\ PinManager_call("clear_pins", clear_pins(pinned_items), w, <<>>)
    /\ UNCHANGED clock

HistoryManager_update_path(old_path, new_path, w) ==
    /\ HistoryManager_call("update_history", update_path(history_items, old_path, new_path),
                           w, old_path)
    /\ UNCHANGED clock

PinManager_update_path(old_path, new_path, w) ==
    /\ PinManager_call("update_pins", update_path(pinned_items, old_path, new_path),
                       w, old_path)
    /\ UNCHANGED clock

\* the program is started again: HistoryManager() and PinManager()
IndexManagers_init ==
    /\ history_items' = HistoryManager_load_history(history_file)
    /\ pinned_items' = PinManager_load_pins(pin_file)
    /\ last' = Request("construct", "done", "none", <<>>, <<>>, <<>>, FALSE, FALSE)
    /\ UNCHANGED <<store, history_file, pin_file, clock, access>>

(* ---------------------------- hash.py called directly ------------------ *)
HashPaths == {join(join(ROOT, nA), CONTENT_BIN), join(join(ROOT, nB), CONTENT_BIN)}

\* save_hashed_password(file_path, hash_password(password)), with the salt
\* os.urandom returned
hash_and_save(file_path, password, salt) ==
    /\ vault' = save_hashed_password(vault, file_path, hash_password(password, salt))
    /\ last' = Idle
    /\ UNCHANGED <<store, index, clock, login_window, editor>>

\* verify_password(load_hashed_password(file_path), password_to_check)
load_and_verify(file_path, password_to_check) ==
    /\ Resolve(file_path) \in DOMAIN vault
    /\ last' = Request("verify",
                       IF verify_password(vault[Resolve(file_path)].data, password_to_check)
                       THEN "true" ELSE "false",
                       "file", file_path, <<>>, password_to_check, FALSE, FALSE)
    /\ UNCHANGED <<store, index, clock, access>>

(* ---------------------------- mutations -------------------------------- *)
\* the items a context menu can be opened on
Menu == (Widgets("file") \cup Widgets("folder")) \cap DOMAIN items

\* a request that went through: the item as it was, the new path, the name
\* or target handed to the store, and whether the indexes held the item
Before(op, item, new, arg) ==
    Request(op, "done", item.item_type, item.full_path, new, arg,
            item.full_path \in Paths(history_items),
            item.full_path \in Paths(pinned_items))

Failed(op, reason, item, target) ==
    Request(op, CASE reason = "exists" -> "collision"
                  [] reason = "rejected" -> "rejected"
                  [] OTHER -> "fs_failed",
            item.item_type, IF op = "move" THEN item.full_path ELSE <<>>, <<>>,
            target, FALSE, FALSE)

Rejected(tree) == [success |-> FALSE, value |-> "rejected", tree |-> tree]

\* MainWindow.rename_item / move_item: what follows `if success:`
history_after_path_change(history, item, r) ==
    IF r.success THEN update_path(history, item.full_path, r.value) ELSE history

pins_after_path_change(pinned, item, r) ==
    IF r.success /\ item.item_type = "file"
    THEN update_path(pinned, item.full_path, r.value) ELSE pinned

\* variant: the history record is dropped before the outcome is known
history_after_delete_always(history, item, r) == remove_item(history, item.full_path)

\* MainWindow.delete_item: what follows `if success:`
history_after_delete(history, item, r) ==
    IF r.success THEN remove_item(history, item.full_path) ELSE history

\* variant: the pin of a deleted file is kept
pins_after_delete_kept(pinned, item, r) == pinned

pins_after_delete(pinned, item, r) ==
    IF r.success /\ item.item_type = "file"
    THEN unpin_file(pinned, item.full_path) ELSE pinned

\* the index files are written by the calls made after `if success:`
Saved(r, item) ==
    /\ history_file' = IF r.success THEN history_items' ELSE history_file
    /\ pin_file' = IF r.success /\ item.item_type = "file" THEN pinned_items' ELSE pin_file

\* MainWindow.rename_item
MainWindow_rename_item(name, text, ioerr) ==
    /\ name \in Menu
    /\ LET item   == items[name]
           dialog == RenameDialog_accept_dialog(display_name(item), text)
           r      == IF dialog.accepted
                     THEN FileSystemManager_rename_item(fs, item, dialog.new_name, ioerr)
                     ELSE Rejected(fs)
       IN  /\ fs' = r.tree
           /\ Bounded(fs')
           /\ vault' = IF r.success THEN rename_files(vault, item.full_path, r.value)
                                    ELSE vault
           /\ history_items' = history_after_path_change(history_items, item, r)
           /\ pinned_items' = pins_after_path_change(pinned_items, item, r)
           /\ Saved(r, item)
           /\ IF r.success THEN populate_files(fs', current_path)
                           ELSE UNCHANGED <<items, grid>>
           /\ last' = IF r.success THEN Before("rename", item, r.value, dialog.new_name)
                      ELSE Failed("rename", r.value, item, <<>>)
    /\ UNCHANGED <<current_path, clock, login_window, editor>>

\* MainWindow.move_item
MainWindow_move_item(name, selection, ioerr) ==
    /\ name \in Menu
    /\ LET item   == items[name]
           dialog == MoveDialog_accept_dialog(item.full_path, item.item_type, selection)
           r      == IF dialog.accepted
                     THEN FileSystemManager_move_item(fs, item, dialog.selected_path, ioerr)
                     ELSE Rejected(fs)
       IN  /\ fs' = r.tree
           /\ Bounded(fs')
           /\ vault' = IF r.success THEN rename_files(vault, item.full_path, r.value)
                                    ELSE vault
           /\ history_items' = history_after_path_change(history_items, item, r)
           /\ pinned_items' = pins_after_path_change(pinned_items, item, r)
           /\ Saved(r, item)
           /\ IF r.success THEN populate_files(fs', current_path)
                           ELSE UNCHANGED <<items, grid>>
           /\ last' = IF r.success THEN Before("move", item, r.value, dialog.selected_path)
                      ELSE Failed("move", r.value, item, dialog.selected_path)
    /\ UNCHANGED <<current_path, clock, login_window, editor>>

\* MainWindow.delete_item
MainWindow_delete_item(name, confirmed, gone) ==
    /\ name \in Menu
    /\ LET item == items[name]
           d    == FileSystemManager_delete_item(fs, item, gone)
           r    == IF confirmed
                   THEN [success |-> d.success, value |-> "error", tree |-> d.tree]
                   ELSE Rejected(fs)
       IN  /\ fs' = r.tree
           /\ vault' = IF confirmed THEN remove_files(vault, fs', gone) ELSE vault
           /\ history_items' = history_after_delete(history_items, item, r)
           /\ pinned_items' = pins_after_delete(pinned_items, item, r)
           /\ Saved(r, item)
           /\ IF r.success THEN populate_files(fs', current_path)
                           ELSE UNCHANGED <<items, grid>>
           /\ last' = IF r.success THEN Before("delete", item, <<>>, <<>>)
                      ELSE Failed("delete", r.value, item, <<>>)
    /\ UNCHANGED <<current_path, clock, login_window, editor>>

\* AddItemDialog.accept_dialog / create_item; a password dialog that does
\* not accept what was typed is cancelled
AddItemDialog_create_item(text, item_type, password_text, confirm_text, salt) ==
    LET item_name == strip(text)
        path == IF item_type = "folder"
                THEN join(current_path, MARK \o item_name)
                ELSE join(current_path, item_name)
        password_dialog == SetPasswordDialog_accept_dialog(password_text, confirm_text)
        created == item_name # <<>> /\ ~HasInvalidChar(item_name)
                   /\ ~exists(fs, path)
                   /\ (item_type = "file" => password_dialog.accepted)
    IN  /\ IF created
           THEN /\ fs' = makedirs(fs, path)
                /\ Bounded(fs')
                /\ vault' = IF item_type = "file"
                            THEN save_hashed_password(vault, join(path, CONTENT_BIN),
                                     hash_password(password_dialog.password, salt))
                            ELSE vault
                /\ populate_files(fs', current_path)
           ELSE UNCHANGED <<fs, items, grid, vault>>
        /\ last' = Idle
        /\ UNCHANGED <<current_path, index, clock, login_window, editor>>

\* the calls of create_item for a File that can raise: makedirs, the write
\* of content.html, rmtree after a cancelled password dialog, the write of
\* the credential file
CreateStages == {"makedirs", "content", "rmtree", "save"}

\* AddItemDialog.create_item for a File when the call at `stage` raises:
\* the except clause reports the failure and returns False; what the calls
\* before it did stays
AddItemDialog_create_item_raises(text, password_text, confirm_text, stage) ==
    LET item_name == strip(text)
        file_dir == join(current_path, item_name)
        password_dialog == SetPasswordDialog_accept_dialog(password_text, confirm_text)
    IN  /\ item_name # <<>> /\ ~HasInvalidChar(item_name)
        /\ ~exists(fs, file_dir)
        /\ stage = "rmtree" => ~password_dialog.accepted
        /\ stage = "save" => password_dialog.accepted
        /\ fs' = IF stage = "makedirs" THEN fs ELSE makedirs(fs, file_dir)
        /\ Bounded(fs')
        /\ last' = Request("create", "fs_failed", "file", <<>>, file_dir, <<stage>>, FALSE, FALSE)
        /\ UNCHANGED <<current_path, items, grid, vault, index, clock, login_window, editor>>

\* MainWindow.on_add_item_clicked, the password dialog either accepted with
\* one fixed password or cancelled
on_add_item_clicked(text, item_type, password_set) ==
    AddItemDialog_create_item(text, item_type,
        IF password_set THEN pwAbc ELSE pwEmpty,
        IF password_set THEN pwAbc ELSE pwEmpty,
        Salt(1))

(* ---------------------------- execution stops mid-request -------------- *)
\* where execution can stop once the filesystem call has returned: before
\* save_history, inside it, after it, inside save_pins
CrashPoints == {"after_fs", "in_history", "after_history", "in_pins"}

\* the index files left behind: a write that was cut short leaves a file
\* json.load raises on
history_file_at(point, history) ==
    CASE point = "after_fs"   -> history_file
      [] point = "in_history" -> MALFORMED
      [] OTHER                -> history

pin_file_at(point) == IF point = "in_pins" THEN MALFORMED ELSE pin_file

\* MainWindow() constructed over what is on disk
MainWindow_init ==
    /\ history_items' = HistoryManager_load_history(history_file')
    /\ pinned_items' = PinManager_load_pins(pin_file')
    /\ current_path' = ROOT
    /\ \E order \in Orders(fs', ROOT) :
          LET s == scan_directory(fs', ROOT, order, <<>>)
          IN  items' = s.map /\ grid' = s.list
    /\ login_window' = <<>>
    /\ editor' = <<>>

\* variant: the index is written first and execution stops before the
\* filesystem call
Stopped_index_first(op, item, r, history, point) ==
    /\ r.success
    /\ point = "in_pins" => item.item_type = "file"
    /\ fs' = fs
    /\ history_file' = history
    /\ pin_file' = pin_file
    /\ MainWindow_init
    /\ last' = Request("crash", point, item.item_type, item.full_path, <<>>, <<op>>,
                       FALSE, FALSE)
    /\ UNCHANGED clock

\* MainWindow.rename_item / move_item / delete_item after the filesystem
\* call succeeded (result r): execution stops at `point` and the program
\* is started again
Stopped(op, item, r, history, point) ==
    /\ r.success
    /\ point = "in_pins" => item.item_type = "file"
    /\ fs' = r.tree
    /\ Bounded(fs')
    /\ history_file' = history_file_at(point, history)
    /\ pin_file' = pin_file_at(point)
    /\ MainWindow_init
    /\ last' = Request("crash", point, item.item_type, item.full_path, <<>>, <<op>>,
                       FALSE, FALSE)
    /\ UNCHANGED clock

MainWindow_rename_item_stopped(name, text, point) ==
    /\ name \in Menu
    /\ LET item   == items[name]
           dialog == RenameDialog_accept_dialog(display_name(item), text)
           r      == IF dialog.accepted
                     THEN FileSystemManager_rename_item(fs, item, dialog.new_name, FALSE)
                     ELSE Rejected(fs)
       IN  /\ Stopped("rename", item, r, history_after_path_change(history_items, item, r), point)
           /\ vault' = IF r.success THEN rename_files(vault, item.full_path, r.value)
                                    ELSE vault

MainWindow_move_item_stopped(name, selection, point) ==
    /\ name \in Menu
    /\ LET item   == items[name]
           dialog == MoveDialog_accept_dialog(item.full_path, item.item_type, selection)
           r      == IF dialog.accepted
                     THEN FileSystemManager_move_item(fs, item, dialog.selected_path, FALSE)
                     ELSE Rejected(fs)
       IN  /\ Stopped("move", item, r, history_after_path_change(history_items, item, r), point)
           /\ vault' = IF r.success THEN rename_files(vault, item.full_path, r.value)
                                    ELSE vault

MainWindow_delete_item_stopped(name, point) ==
    /\ name \in Menu
    /\ LET item == items[name]
           gone == Subtree(fs, Resolve(item.full_path))
           d    == FileSystemManager_delete_item(fs, item, gone)
           r    == [success |-> d.success, value |-> "error", tree |-> d.tree]
       IN  /\ Stopped("delete", item, r, history_after_delete(history_items, item, r), point)
           /\ vault' = remove_files(vault, fs', gone)

(* ---------------------------- a request, call by call ------------------ *)
\* how far MainWindow.rename_item / move_item / delete_item has come; the
\* handler runs on the one GUI thread, so nothing else is handled until it
\* has returned
Phases == {"requested", "validating", "rejected", "applying", "fs_failed", "fs_ok",
           "index_syncing", "done"}
Terminal == {"rejected", "fs_failed", "done"}

Phase(l) == IF l.op \in {"rename", "move", "delete"} /\ l.result \in Phases
            THEN l.result ELSE "idle"

InFlight == Phase(last) \notin Terminal \cup {"idle"}

\* the item the request in flight was made on
Requested == items[CHOOSE n \in DOMAIN items : items[n].full_path = last.old]

At(phase) == [last EXCEPT !.result = phase]

\* a context menu entry is chosen
MainWindow_request(name, op) ==
    /\ ~InFlight
    /\ name \in Menu
    /\ last' = Request(op, "requested", items[name].item_type, items[name].full_path,
                       <<>>, <<>>, FALSE, FALSE)
    /\ UNCHANGED <<store, index, clock, access>>

\* RenameDialog / MoveDialog / QMessageBox.question is put up
dialog_exec ==
    /\ Phase(last) = "requested"
    /\ last' = At("validating")
    /\ UNCHANGED <<store, index, clock, access>>

\* the dialog is cancelled, the question answered with No
dialog_rejected ==
    /\ Phase(last) = "validating"
    /\ last' = At("rejected")
    /\ UNCHANGED <<store, index, clock, access>>

\* the dialog returns: `if dialog.exec() == QDialog.Accepted and ...`; a
\* dialog that does not accept what was typed is cancelled
dialog_returns(text, selection) ==
    /\ Phase(last) = "validating"
    /\ LET item == Requested
           rename == RenameDialog_accept_dialog(display_name(item), text)
           move   == MoveDialog_accept_dialog(item.full_path, item.item_type, selection)
           accepted == CASE last.op = "rename" -> rename.accepted
                         [] last.op = "move"   -> move.accepted
                         [] OTHER              -> TRUE
           arg == CASE last.op = "rename" -> rename.new_name
                    [] last.op = "move"   -> move.selected_path
                    [] OTHER              -> <<>>
       IN  last' = IF accepted THEN [At("applying") EXCEPT !.arg = arg] ELSE At("rejected")
    /\ UNCHANGED <<store, index, clock, access>>

\* variant: the indexes are synchronised whatever the store returned
fs_manager_raises_any ==
    /\ Phase(last) = "applying"
    /\ last' = At("fs_ok")
    /\ UNCHANGED <<store, index, clock, access>>

\* os.rename / shutil.move / shutil.rmtree raises before it has changed
\* anything: the store returns (False, message)
fs_manager_raises ==
    /\ Phase(last) = "applying"
    /\ last' = At("fs_failed")
    /\ UNCHANGED <<store, index, clock, access>>

\* self.fs_manager.rename_item / move_item / delete_item returns, the
\* filesystem call not raising
fs_manager_returns ==
    /\ Phase(last) = "applying"
    /\ LET item == Requested
           gone == Subtree(fs, Resolve(item.full_path))
           d == FileSystemManager_delete_item(fs, item, gone)
           r == CASE last.op = "rename" ->
                       FileSystemManager_rename_item(fs, item, last.arg, FALSE)
                  [] last.op = "move" ->
                       FileSystemManager_move_item(fs, item, last.arg, FALSE)
                  [] OTHER -> [success |-> d.success, value |-> <<>>, tree |-> d.tree]
       IN  /\ fs' = r.tree
           /\ Bounded(fs')
           /\ vault' = IF last.op = "delete" THEN remove_files(vault, fs', gone)
                       ELSE IF r.success THEN rename_files(vault, item.full_path, r.value)
                       ELSE vault
           /\ last' = IF r.success THEN [At("fs_ok") EXCEPT !.new = r.value]
                      ELSE At("fs_failed")
    /\ UNCHANGED <<current_path, items, grid, index, clock, login_window, editor>>

\* `if success:` is entered
sync_begins ==
    /\ Phase(last) = "fs_ok"
    /\ last' = At("index_syncing")
    /\ UNCHANGED <<store, index, clock, access>>

\* update_path / remove_item / unpin_file with the ways their writes can
\* end, then the displays are refreshed
indexes_written(wh, wp) ==
    /\ Phase(last) = "index_syncing"
    /\ LET is_file == last.kind = "file"
           history == IF last.op = "delete" THEN remove_item(history_items, last.old)
                      ELSE update_path(history_items, last.old, last.new)
           pinned  == IF ~is_file THEN pinned_items
                      ELSE IF last.op = "delete" THEN unpin_file(pinned_items, last.old)
                      ELSE update_path(pinned_items, last.old, last.new)
       IN  /\ history_items' = history
           /\ history_file' = save_history(history_file, history, wh)
           /\ pinned_items' = pinned
           /\ pin_file' = IF is_file THEN save_pins(pin_file, pinned, wp) ELSE pin_file
    /\ populate_files(fs, current_path)
    /\ last' = At("done")
    /\ UNCHANGED <<fs, current_path, clock, access>>

\* the calls a handler makes once it has been entered
handler_runs ==
    \/ dialog_exec
    \/ dialog_rejected
    \/ \E t \in {nB, nEmpty}, s \in RelSelections(fs) : dialog_returns(t, s)
    \/ fs_manager_raises
    \/ fs_manager_returns
    \/ sync_begins
    \/ \E w \in SaveOutcomes : indexes_written(w, w)

(* ---------------------------- open behind the login window ------------- *)
\* PasswordManager.load_password_hash: found = FALSE stands for None, which
\* is returned when the file is not there and when reading it raised
load_password_hash(files, item) ==
    LET f == Resolve(password_file_path(item))
    IN  IF f \in DOMAIN files /\ files[f].readable
        THEN [found |-> TRUE, hash |-> files[f].data]
        ELSE [found |-> FALSE, hash |-> <<>>]

\* the main window is neither behind a login window nor blocked in
\* subprocess.run; the user answers a login window before anything else
Answered == login_window = <<>> /\ editor = <<>>

Opening(op, result, file_item, entered_password) ==
    Request(op, result, "file", file_item.full_path, <<>>, entered_password,
            file_item.full_path \in Paths(history_items),
            file_item.full_path \in Paths(pinned_items))

\* on_login_success, and the branch of _open_file_with_password_check for no
\* password: add_file_to_history, then open_file_content
touch_and_open_file_content(file_item) ==
    /\ clock < MaxClock
    /\ clock' = clock + 1
    /\ SetHistory(add_file_to_history(history_items, file_item, clock'))
    /\ editor' = <<file_item.full_path>>

\* MainWindow._open_file_with_password_check
MainWindow_open_file_with_password_check(file_item) ==
    LET password_hash == load_password_hash(vault, file_item)
    IN  IF ~password_hash.found
        THEN /\ touch_and_open_file_content(file_item)
             /\ last' = Opening("open", "direct", file_item, <<>>)
             /\ UNCHANGED <<store, pinned_items, pin_file, vault, login_window>>
        ELSE /\ login_window' = <<[item |-> file_item,
                                   expected_password_hash |-> password_hash.hash]>>
             /\ last' = Opening("open", "login", file_item, <<>>)
             /\ UNCHANGED <<store, index, clock, vault, editor>>

\* MainWindow.on_file_clicked
on_file_clicked_check(file_name) ==
    /\ Answered
    /\ file_name \in Widgets("file") \cap DOMAIN items
    /\ items[file_name].item_type = "file"
    /\ MainWindow_open_file_with_password_check(items[file_name])

\* MainWindow.on_history_file_clicked
on_history_file_clicked_check(file_path) ==
    /\ Answered
    /\ file_path \in Paths(history_items)
    /\ exists(fs, file_path)
    /\ MainWindow_open_file_with_password_check(FileItem(basename(file_path), file_path))

\* LoginWindow.authenticate; an exception of verify_password leaves the
\* slot with nothing done
LoginWindow_authenticate(entered_password) ==
    /\ login_window # <<>>
    /\ LET w == login_window[1]
       IN  IF verify_raises(w.expected_password_hash)
           THEN /\ last' = Opening("authenticate", "raised", w.item, entered_password)
                /\ UNCHANGED <<store, index, clock, access>>
           ELSE IF verify_password(w.expected_password_hash, entered_password)
           THEN /\ login_window' = <<>>
                /\ touch_and_open_file_content(w.item)
                /\ last' = Opening("authenticate", "true", w.item, entered_password)
                /\ UNCHANGED <<store, pinned_items, pin_file, vault>>
           ELSE /\ last' = Opening("authenticate", "false", w.item, entered_password)
                /\ UNCHANGED <<store, index, clock, access>>

\* the login window is closed without a password that verifies
LoginWindow_close ==
    /\ login_window # <<>>
    /\ login_window' = <<>>
    /\ last' = Idle
    /\ UNCHANGED <<store, index, clock, vault, editor>>

\* subprocess.run returns
notepad_exits ==
    /\ editor # <<>>
    /\ editor' = <<>>
    /\ last' = Idle
    /\ UNCHANGED <<store, index, clock, vault, login_window>>

(* ---------------------------- password change -------------------------- *)
\* variant: the old password is not asked for
ChangePasswordDialog_save_new_password_unasked(files, filePath, currentHash, old_pw, new_pw, confirm_pw, salt) ==
    IF new_pw = <<>> \/ new_pw # confirm_pw THEN [saved |-> FALSE, files |-> files]
    ELSE [saved |-> TRUE,
          files |-> save_hashed_password(files, filePath, hash_password(new_pw, salt))]

\* ChangePasswordDialog.__init__ and save_new_password: [saved, files]
ChangePasswordDialog_save_new_password(files, filePath, currentHash, old_pw, new_pw, confirm_pw, salt) ==
    LET f == Resolve(filePath)
        old_password_entry == f \in DOMAIN files
        load_raises == ~currentHash.found /\ f \in DOMAIN files /\ ~files[f].readable
        stored_hash ==
            IF currentHash.found THEN currentHash
            ELSE IF f \in DOMAIN files /\ files[f].readable
            THEN [found |-> TRUE, hash |-> files[f].data]
            ELSE [found |-> FALSE, hash |-> <<>>]
        refused ==
            \/ load_raises
            \/ /\ old_password_entry
               /\ \/ ~stored_hash.found
                  \/ verify_raises(stored_hash.hash)
                  \/ ~verify_password(stored_hash.hash, old_pw)
            \/ new_pw = <<>>
            \/ new_pw # confirm_pw
    IN  IF refused THEN [saved |-> FALSE, files |-> files]
        ELSE [saved |-> TRUE,
              files |-> save_hashed_password(files, filePath, hash_password(new_pw, salt))]

\* MainWindow.change_item_password -> PasswordManager.change_password
MainWindow_change_item_password(name, old_pw, new_pw, confirm_pw, salt) ==
    /\ Answered
    /\ name \in Widgets("file") \cap DOMAIN items
    /\ items[name].item_type = "file"
    /\ LET item == items[name]
           r == ChangePasswordDialog_save_new_password(vault, password_file_path(item),
                    load_password_hash(vault, item), old_pw, new_pw, confirm_pw, salt)
       IN  /\ vault' = r.files
           /\ last' = Request("change_password", IF r.saved THEN "done" ELSE "refused",
                              "file", item.full_path, <<>>, new_pw, FALSE, FALSE)
    /\ UNCHANGED <<store, index, clock, login_window, editor>>

(* ---------------------------- credential files damaged ----------------- *)
Damage == {"unreadable", "truncated", "malformed"}

\* what is left of a credential file
damaged(file, how) ==
    CASE how = "unreadable" -> [file EXCEPT !.readable = FALSE]
      [] how = "truncated"  -> [file EXCEPT !.data = slice(file.data, 0, 20)]
      [] OTHER              -> [file EXCEPT !.data = slice(file.data, 0, 10)]

\* the credential file of an item is damaged outside the program
credential_file_damaged(f, how) ==
    /\ Answered
    /\ f \in DOMAIN vault
    /\ vault[f].readable /\ Len(vault[f].data) = Len(hash_password(pwAbc, Salt(1)))
    /\ vault' = [vault EXCEPT ![f] = damaged(vault[f], how)]
    /\ last' = Idle
    /\ UNCHANGED <<store, index, clock, login_window, editor>>

\* what rmtree may have removed when it returns or raises, the credential
\* files included: a file is unlinked before its directory is removed
RmtreeOutcomesFiles(tree, files, path) ==
    {g \cup f : g \in RmtreeOutcomes(tree, path),
                f \in SUBSET {q \in DOMAIN files : Under(q, Resolve(path))}}

(* ---------------------------- scans of directories as found ------------ *)
nLa == <<"a">>
nLb == <<"b">>

\* names of the entries found in the content root
ScanNames == {nLa, nA, nB, MARK \o nA, MARK \o nLb}

\* the trees found at start: entries of the content root
ScanTrees ==
    {{join(DATA, n) : n \in N} :
        N \in {M \in SUBSET ScanNames : Cardinality(M) <= MaxEntries}}

\* the program starts in the content root, or is looking at a folder that
\* another program may have removed
InitScan ==
    /\ fs \in ScanTrees
    /\ current_path \in {ROOT, join(ROOT, MARK \o nA) \o SEP}
    /\ items = <<>>
    /\ grid = <<>>
    /\ history_items = <<>>
    /\ pinned_items = <<>>
    /\ history_file = <<>>
    /\ pin_file = <<>>
    /\ clock = 0
    /\ last = Idle
    /\ vault = <<>>
    /\ login_window = <<>>
    /\ editor = <<>>

\* MainWindow.resizeEvent -> populate_files
MainWindow_resizeEvent ==
    /\ populate_files(fs, current_path)
    /\ last' = Request("scan", "done", "none", current_path, <<>>, <<>>, FALSE, FALSE)
    /\ UNCHANGED <<fs, current_path, index, clock, access>>

\* names typed for a new folder
FolderTexts == {nA, nPadB, MARK \o nB}

(* ---------------------------- the store called directly ---------------- *)
\* the trees found at start: folders within folders, and a File A next to
\* the Folder A
NavDirs == {join(DATA, MARK \o nA), join(DATA, nA),
            join(join(DATA, MARK \o nA), MARK \o nLb),
            join(join(DATA, MARK \o nA), nLa),
            join(join(join(DATA, MARK \o nA), MARK \o nLb), nB)}

NavTrees == {T \in SUBSET NavDirs : \A p \in T : dirname(p) \in Dirs(T)}

NavNames == {nA, nLa, nLb, nB}

InitNav ==
    /\ fs \in NavTrees
    /\ current_path = ROOT
    /\ items = <<>>
    /\ grid = <<>>
    /\ history_items = <<>>
    /\ pinned_items = <<>>
    /\ history_file = <<>>
    /\ pin_file = <<>>
    /\ clock = 0
    /\ last = Idle
    /\ vault = <<>>
    /\ login_window = <<>>
    /\ editor = <<>>

\* FileSystemManager.navigate_to_folder
FileSystemManager_navigate_to_folder(folder_name) ==
    LET r == navigate_to_folder(items, current_path, folder_name)
    IN  /\ current_path' = r.current_path
        /\ last' = Request("navigate", IF r.ok THEN "true" ELSE "false", "none",
                           current_path, <<>>, folder_name, FALSE, FALSE)
        /\ UNCHANGED <<fs, items, grid, index, clock, access>>

\* FileSystemManager.go_back
FileSystemManager_go_back_call ==
    LET r == FileSystemManager_go_back(current_path)
    IN  /\ current_path' = r.current_path
        /\ last' = Request("back", IF r.ok THEN "true" ELSE "false", "none",
                           current_path, <<>>, <<>>, FALSE, FALSE)
        /\ UNCHANGED <<fs, items, grid, index, clock, access>>

(* ---------------------------- specification ---------------------------- *)
Navigate ==
    \/ \E n \in DOMAIN items : on_folder_clicked(n)
    \/ go_back

Create ==
    \E t \in CreateTexts, k \in {"file", "folder"}, pw \in BOOLEAN :
        on_add_item_clicked(t, k, pw)

Open == \E n \in DOMAIN items, o \in BOOLEAN : on_file_clicked(n, o)

Delete ==
    \E n \in DOMAIN items, c \in BOOLEAN :
        \E g \in RmtreeOutcomes(fs, items[n].full_path) :
            MainWindow_delete_item(n, c, g)

\* the store with both indexes; names without the folder marker, move
\* targets spelled relative to the working directory
Next ==
    \/ Navigate
    \/ Create
    \/ Open
    \/ \E p \in Paths(history_items), o \in BOOLEAN : on_history_file_clicked(p, o)
    \/ \E p \in Paths(pinned_items), o \in BOOLEAN : on_pinned_file_clicked(p, o)
    \/ \E n \in DOMAIN items : on_file_context_menu_pin(n)
    \/ \E p \in Paths(history_items), e \in {"pin", "remove"} : on_history_context_menu(p, e)
    \/ \E p \in Paths(pinned_items) : on_pinned_context_menu(p)
    \/ \E n \in DOMAIN items, t \in PlainTexts, e \in BOOLEAN :
          MainWindow_rename_item(n, t, e)
    \/ \E n \in DOMAIN items, s \in RelSelections(fs), e \in BOOLEAN :
          MainWindow_move_item(n, s, e)
    \/ Delete

Spec == Init /\ [][Next]_vars

\* moves with the target in either spelling
NextMove ==
    \/ Navigate
    \/ Create
    \/ Open
    \/ \E n \in DOMAIN items, s \in Selections(fs), e \in BOOLEAN :
          MainWindow_move_item(n, s, e)

SpecMove == Init /\ [][NextMove]_vars

\* moves among folders one of whose names begins with the name of another
NextSiblings ==
    \/ NextMove
    \/ on_add_item_clicked(nAB, "folder", FALSE)

SpecSiblings == Init /\ [][NextSiblings]_vars

\* renames to any name the dialog accepts, the folder marker included
NextNames ==
    \/ Navigate
    \/ Create
    \/ \E n \in DOMAIN items, t \in RenameTexts, e \in BOOLEAN :
          MainWindow_rename_item(n, t, e)

SpecNames == Init /\ [][NextNames]_vars

\* the two indexes called directly, over stored files up to their limits
NextIndex ==
    \/ \E i \in IndexItems : HistoryManager_add_file_to_history(i)
    \/ \E i \in IndexItems : PinManager_pin_file_item(i)
    \/ \E p \in IndexPaths : PinManager_unpin_file(p)
    \/ \E p \in IndexPaths : HistoryManager_remove_item(p)
    \/ \E c \in PathChanges : IndexManagers_update_path(c[1], c[2])

SpecIndex == InitIndex /\ [][NextIndex]_vars

\* hash.py called directly, over every password and salt of the inputs
NextHash ==
    \/ \E f \in HashPaths, p \in Passwords, salt \in Salts : hash_and_save(f, p, salt)
    \/ \E f \in HashPaths, q \in Passwords : load_and_verify(f, q)

SpecHash == Init /\ [][NextHash]_vars

\* files behind passwords: created, opened through the login window, their
\* passwords changed, their credential files damaged, renamed and deleted
PasswordPairs == {<<pwAb, pwAb>>, <<pwAbc, pwAbc>>, <<pwAbc, pwAbcx>>}

\* what is typed as new password and confirmation when changing one
ChangePairs == PasswordPairs \cup {<<pwEmpty, pwEmpty>>}

\* what is typed as old password, and the salts drawn for the new record
ChangeOlds == {pwAb, pwAbc, pwAbcx}
ChangeSalts == {Salt(2)}

NextVault ==
    \/ \E pw \in PasswordPairs :
          Answered /\ AddItemDialog_create_item(nA, "file", pw[1], pw[2], Salt(1))
    \/ \E n \in DOMAIN items : on_file_clicked_check(n)
    \/ \E p \in Paths(history_items) : on_history_file_clicked_check(p)
    \/ \E q \in {pwAbc, pwAbcx} : LoginWindow_authenticate(q)
    \/ LoginWindow_close
    \/ notepad_exits
    \/ \E n \in DOMAIN items, old \in {pwAbc, pwAbcx}, pw \in PasswordPairs :
          MainWindow_change_item_password(n, old, pw[1], pw[2], Salt(2))
    \/ \E f \in DOMAIN vault, how \in Damage : credential_file_damaged(f, how)
    \/ \E n \in DOMAIN items : Answered /\ MainWindow_rename_item(n, nB, FALSE)
    \/ \E n \in DOMAIN items :
          \E g \in RmtreeOutcomesFiles(fs, vault, items[n].full_path) :
              Answered /\ MainWindow_delete_item(n, TRUE, g)

SpecVault == Init /\ [][NextVault]_vars

\* Files created with a password, passwords changed, credential files
\* damaged, Files renamed
NextChange ==
    \/ \E pw \in PasswordPairs :
          Answered /\ AddItemDialog_create_item(nA, "file", pw[1], pw[2], Salt(1))
    \/ \E n \in DOMAIN items, old \in ChangeOlds, pw \in ChangePairs, s \in ChangeSalts :
          MainWindow_change_item_password(n, old, pw[1], pw[2], s)
    \/ \E f \in DOMAIN vault, how \in Damage : credential_file_damaged(f, how)
    \/ \E n \in DOMAIN items : Answered /\ MainWindow_rename_item(n, nB, FALSE)

SpecChange == Init /\ [][NextChange]_vars

\* Files created, with the calls of create_item raising or not, scanned and
\* opened
NextCreate ==
    \/ \E t \in {nA, nB}, pw \in PasswordPairs :
          Answered /\ AddItemDialog_create_item(t, "file", pw[1], pw[2], Salt(1))
    \/ \E t \in {nA, nB}, pw \in PasswordPairs, stage \in CreateStages :
          Answered /\ AddItemDialog_create_item_raises(t, pw[1], pw[2], stage)
    \/ Answered /\ MainWindow_resizeEvent
    \/ \E n \in DOMAIN items : on_file_clicked_check(n)
    \/ LoginWindow_close
    \/ notepad_exits

SpecCreate == Init /\ [][NextCreate]_vars

\* the index methods called with every way their write can end, and restarts
NextPersist ==
    \/ \E i \in PersistItems, w \in SaveOutcomes : HistoryManager_add_file_to_history_saving(i, w)
    \/ \E p \in PersistPaths, w \in SaveOutcomes : HistoryManager_remove_item_saving(p, w)
    \/ \E w \in SaveOutcomes : HistoryManager_clear_history(w)
    \/ \E i \in PersistItems, w \in SaveOutcomes : PinManager_pin_file_item_saving(i, w)
    \/ \E p \in PersistPaths, w \in SaveOutcomes : PinManager_unpin_file_saving(p, w)
    \/ \E w \in SaveOutcomes : PinManager_clear_pins(w)
    \/ \E c \in PersistChanges, w \in SaveOutcomes : HistoryManager_update_path(c[1], c[2], w)
    \/ \E c \in PersistChanges, w \in SaveOutcomes : PinManager_update_path(c[1], c[2], w)
    \/ IndexManagers_init

SpecPersist == InitPersist /\ [][NextPersist]_vars

\* the content root with both indexes, and execution stopping inside a rename, a
\* move or a delete
NextCrash ==
    \/ \E k \in {"file", "folder"} : on_add_item_clicked(nA, k, k = "file")
    \/ \E n \in DOMAIN items : on_file_clicked(n, TRUE)
    \/ \E n \in DOMAIN items : on_file_context_menu_pin(n)
    \/ \E n \in DOMAIN items : MainWindow_rename_item(n, nB, FALSE)
    \/ \E n \in DOMAIN items, p \in CrashPoints : MainWindow_rename_item_stopped(n, nB, p)
    \/ \E n \in DOMAIN items, s \in RelSelections(fs), p \in CrashPoints :
          MainWindow_move_item_stopped(n, s, p)
    \/ \E n \in DOMAIN items, p \in CrashPoints : MainWindow_delete_item_stopped(n, p)

SpecCrash == Init /\ [][NextCrash]_vars

\* items created and opened, and requests to rename, move and delete them
\* taken call by call
NextSteps ==
    \/ \E k \in {"file", "folder"} : ~InFlight /\ on_add_item_clicked(nA, k, k = "file")
    \/ \E n \in DOMAIN items : ~InFlight /\ on_file_clicked(n, TRUE)
    \/ \E n \in DOMAIN items, op \in {"rename", "move", "delete"} : MainWindow_request(n, op)
    \/ handler_runs

SpecSteps == Init /\ [][NextSteps]_vars

\* a handler that has been entered goes on: its calls return and the user
\* answers the modal dialog
SpecStepsFair == SpecSteps /\ WF_vars(handler_runs)

\* directories as found, scanned, and folders created in them
NextScan ==
    \/ MainWindow_resizeEvent
    \/ \E t \in FolderTexts :
          AddItemDialog_create_item(t, "folder", pwEmpty, pwEmpty, Salt(1))

SpecScan == InitScan /\ [][NextScan]_vars

\* scan, navigate and back of the store, over trees as found
NextNav ==
    \/ MainWindow_resizeEvent
    \/ \E n \in NavNames : FileSystemManager_navigate_to_folder(n)
    \/ FileSystemManager_go_back_call

SpecNav == InitNav /\ [][NextNav]_vars

(* ---------------------------- claims ----------------------------------- *)
Indexed == Paths(history_items) \cup Paths(pinned_items)

Mutations == {"rename", "move", "delete"}

\* the path a record inside a moved subtree should carry afterwards
Rewritten(p, old, new) == new \o SubSeq(p, Len(old) + 1, Len(p))

\* the target directory lies in the subtree of the item
Inside(target, item_path) ==
    \/ Resolve(target) = Resolve(item_path)
    \/ Under(Resolve(target), Resolve(item_path))

\* C1: in every reachable state each path recorded in the RecencyIndex or the
\* PinIndex exists in the filesystem.
C1_IndexedPathsExist == \A p \in Indexed : exists(fs, p)

\* C2: a successful rename or move of a Folder rewrites every index record
\* whose path lay inside the folder to the same place under the new path, and
\* leaves no record under the old path.
C2_FolderChangeRewritesSubtree ==
    [][(last'.op \in {"rename", "move"} /\ last'.result = "done" /\ last'.kind = "folder")
       => /\ \A i \in DOMAIN history_items :
                Under(history_items[i].full_path, last'.old)
                => /\ i \in DOMAIN history_items'
                   /\ history_items'[i].full_path =
                         Rewritten(history_items[i].full_path, last'.old, last'.new)
          /\ \A i \in DOMAIN pinned_items :
                Under(pinned_items[i].full_path, last'.old)
                => /\ i \in DOMAIN pinned_items'
                   /\ pinned_items'[i].full_path =
                         Rewritten(pinned_items[i].full_path, last'.old, last'.new)
          /\ \A i \in DOMAIN history_items' : ~Under(history_items'[i].full_path, last'.old)
          /\ \A i \in DOMAIN pinned_items' : ~Under(pinned_items'[i].full_path, last'.old)]_vars

\* C3: after a successful delete of a Folder at P no index record has the
\* path P or a path below P.
C3_FolderDeletePurgesSubtree ==
    (last.op = "delete" /\ last.result = "done" /\ last.kind = "folder")
    => \A p \in Indexed : p # last.old /\ ~Under(p, last.old)

Count(list, p) == Cardinality({i \in DOMAIN list : list[i].full_path = p})

\* the record of a renamed path: gone from A, once at B, name refreshed when
\* it was basename(A), timestamp and position kept
RenamedIn(before, after, stamp) ==
    /\ Count(after, last'.old) = 0
    /\ Count(after, last'.new) = 1
    /\ \A i \in DOMAIN before :
          before[i].full_path = last'.old
          => /\ after[i].full_path = last'.new
             /\ after[i][stamp] = before[i][stamp]
             /\ before[i].name = basename(last'.old)
                => after[i].name = basename(last'.new)

\* C5: after a successful rename of an indexed File item from A to B, each
\* index that held A has no record for A and exactly one for B, with the name
\* refreshed and the timestamp and position unchanged.
C5_RenamePropagates ==
    [][(last'.op = "rename" /\ last'.result = "done" /\ last'.kind = "file")
       => /\ last'.in_hist => RenamedIn(history_items, history_items', "last_accessed")
          /\ last'.in_pin => RenamedIn(pinned_items, pinned_items', "pinned_at")]_vars

\* C6: no two records of the RecencyIndex share a full_path, and no two
\* records of the PinIndex do.
C6_PathsUnique ==
    /\ \A p \in Paths(history_items) : Count(history_items, p) = 1
    /\ \A p \in Paths(pinned_items) : Count(pinned_items, p) = 1

\* C7: a rename, move or delete request whose filesystem call did not
\* succeed leaves both indexes, in memory and on disk, as they were.
C7_NoIndexChangeWithoutSuccess ==
    [][(last'.op \in Mutations /\ last'.result # "done")
       => UNCHANGED <<history_items, pinned_items, history_file, pin_file>>]_vars

\* C7 witness: the filesystem call of a move of an indexed item has failed.
C7_Witness ==
    /\ last.op = "move" /\ last.result = "fs_failed"
    /\ last.old \in Paths(history_items)

\* C8: a rename or move rejected for its name, its target or a collision
\* leaves the tree, the cursor and both indexes unchanged.
C8_RejectionChangesNothing ==
    [][(last'.op \in {"rename", "move"} /\ last'.result \in {"rejected", "collision"})
       => UNCHANGED <<fs, current_path, history_items, pinned_items>>]_vars

\* C8 witness: a rename has been refused for a collision while the indexes
\* hold records.
C8_Witness ==
    /\ last.op = "rename" /\ last.result = "collision"
    /\ history_items # <<>> /\ pinned_items # <<>>

\* C9: a move of a Folder whose target is the folder itself or lies below
\* it, in either spelling, does not go through and changes nothing.
C9_NoMoveIntoOwnSubtree ==
    [][(last'.op = "move" /\ last'.kind = "folder" /\ Inside(last'.arg, last'.old))
       => /\ last'.result # "done"
          /\ UNCHANGED <<fs, current_path, items, grid, history_items, pinned_items>>]_vars

\* C9 witness: a move of a folder into a directory below itself, the target
\* spelled absolutely, has been refused by the filesystem layer.
C9_Witness ==
    /\ last.op = "move" /\ last.kind = "folder" /\ last.result = "fs_failed"
    /\ last.arg # <<>> /\ last.arg[1] = "/"
    /\ Under(Resolve(last.arg), last.old)

\* C10: after a successful rename of an item to a name, the scan of its
\* directory holds an item of the same kind at the new path whose display
\* name is that name.
C10_RenameThenScanYieldsName ==
    (last.op = "rename" /\ last.result = "done")
    => \E i \in DOMAIN grid :
          /\ grid[i].full_path = last.new
          /\ grid[i].item_type = last.kind
          /\ display_name(grid[i]) = last.arg

Range(list) == {list[i] : i \in DOMAIN list}

\* the records of an index with the smallest timestamp
Oldest(list, stamp) ==
    {r \in Range(list) : \A q \in Range(list) : r[stamp] <= q[stamp]}

\* the new record went in and exactly the oldest record went out
Evicted(before, after, stamp, limit, path) ==
    /\ Len(after) = limit
    /\ path \in Paths(after)
    /\ \E r \in Oldest(before, stamp) :
          Range(after) \ {q \in Range(after) : q.full_path = path}
              = Range(before) \ {r}

\* C11: the RecencyIndex never holds more than 50 records and the PinIndex
\* never more than 20; a touch of a path without a record at 50 records,
\* and a pin of a path without a record at 20, inserts the new record and
\* discards exactly the record with the oldest timestamp.
C11_BoundedWithEviction ==
    /\ [](Len(history_items) <= HISTORY_LIMIT /\ Len(pinned_items) <= PIN_LIMIT)
    /\ [][/\ (last'.op = "touch" /\ ~last'.in_hist /\ Len(history_items) = HISTORY_LIMIT)
             => Evicted(history_items, history_items', "last_accessed",
                        HISTORY_LIMIT, last'.old)
          /\ (last'.op = "pin" /\ ~last'.in_pin /\ Len(pinned_items) = PIN_LIMIT)
             => Evicted(pinned_items, pinned_items', "pinned_at",
                        PIN_LIMIT, last'.old)]_vars

\* C11 witness: a path without a record has been touched while the history
\* was full, and the history is full again.
C11_Witness ==
    /\ last.op = "touch" /\ ~last.in_hist
    /\ Len(history_items) = HISTORY_LIMIT
    /\ history_items[HISTORY_LIMIT].full_path = PrePath(HISTORY_LIMIT - 1)

\* C12: the history is ordered strictly descending by last_accessed and the
\* pins are ordered descending by pinned_at, after every index operation.
C12_OrderedByTimestamp ==
    /\ \A i, j \in DOMAIN history_items :
          i < j => history_items[i].last_accessed > history_items[j].last_accessed
    /\ \A i, j \in DOMAIN pinned_items :
          i < j => pinned_items[i].pinned_at >= pinned_items[j].pinned_at

\* C12 witness: a record that was not the first has been touched and is now
\* the first of a history with other records.
C12_Witness ==
    /\ last.op = "touch" /\ last.in_hist /\ last.old = PrePath(2)
    /\ Len(history_items) >= 2
    /\ history_items[1].full_path = PrePath(2)
    /\ history_items[2].full_path = PrePath(1)

\* C13: a touch that follows a touch of the same path leaves exactly one
\* record for that path, first in the list and carrying the time of the
\* second call, and leaves the number of records as the first call left it.
C13_TouchIsIdempotent ==
    [][(last.op = "touch" /\ last'.op = "touch" /\ last'.old = last.old)
       => /\ Count(history_items', last'.old) = 1
          /\ history_items'[1].full_path = last'.old
          /\ history_items'[1].last_accessed = clock'
          /\ Len(history_items') = Len(history_items)]_vars

\* C14: a pin of a path that is pinned returns false and leaves the pins and
\* their file unchanged; a pin of a path that is not pinned returns true and
\* the path is pinned afterwards.
C14_PinOnceOnly ==
    [][last'.op = "pin"
       => IF last'.in_pin
          THEN last'.result = "false" /\ UNCHANGED <<pinned_items, pin_file>>
          ELSE last'.result = "true" /\ is_pinned(pinned_items', last'.old)]_vars

\* C14 witness: a pin of a pinned path has returned false.
C14_Witness ==
    /\ last.op = "pin" /\ last.result = "false" /\ last.in_pin
    /\ is_pinned(pinned_items, last.old)

\* C15: a record derived from a password verifies that password and no
\* other password of the inputs, whichever salt the derivation drew.
C15_VerifyRoundTrip ==
    [][last'.op = "verify"
       => \A p \in Passwords, salt \in Salts :
             vault[Resolve(last'.old)].data = hash_password(p, salt)
                => (last'.result = "true" <=> last'.arg = p)]_vars

\* C15 witness: a record derived from "abc" with the second salt has
\* refused "abcx".
C15_Witness ==
    /\ last.op = "verify" /\ last.result = "false" /\ last.arg = pwAbcx
    /\ \E salt \in Salts :
          /\ salt[1] # 7
          /\ vault[Resolve(last.old)].data = hash_password(pwAbc, salt)

\* the credential file next to the content of the File item at a path
CredentialOf(path) == Resolve(join(path, CONTENT_BIN))

\* a credential file that can be read and decodes to a salt and a key
ValidRecord(file) ==
    /\ file.readable
    /\ ~b64_raises(file.data)
    /\ Len(urlsafe_b64decode(file.data)) = SALT_LEN + KEY_LEN

\* this step hands a content file to the editor
Handed == editor = <<>> /\ editor' # <<>>

\* this step touches the history
Touched == clock' # clock

\* C16: the content of a File item whose credential file exists is handed
\* to the editor, and the item is touched, only if the file holds a valid
\* record and a password has verified against it; an item opens without a
\* password only if it has no credential file.
C16_DamagedNeverOpened ==
    [][(Handed \/ Touched)
       => LET f == CredentialOf(last'.old)
          IN  f \in DOMAIN vault
                 => /\ ValidRecord(vault[f])
                    /\ last'.op = "authenticate" /\ last'.result = "true"]_vars

\* C17: for a File item with a credential file, the history is touched and
\* the editor started only in the step in which verify_password returned
\* true for the password entered, the touch being in place when the editor
\* starts; a password that does not verify changes neither history nor
\* editor, and no other request touches the history.
C17_TouchOnlyAfterVerify ==
    [][/\ ((Handed \/ Touched) /\ CredentialOf(last'.old) \in DOMAIN vault)
          => /\ last'.op = "authenticate"
             /\ login_window # <<>>
             /\ ~verify_raises(login_window[1].expected_password_hash)
             /\ verify_password(login_window[1].expected_password_hash, last'.arg)
             /\ Handed /\ Touched
             /\ history_items'[1].full_path = editor'[1]
             /\ history_items'[1].last_accessed = clock'
       /\ (last'.op = "authenticate" /\ last'.result # "true")
          => UNCHANGED <<history_items, history_file, editor>>
       /\ last'.op \notin {"open", "authenticate"}
          => ~Touched /\ ~Handed]_vars

\* C18: no credential file holds a record derived from a password of fewer
\* than 3 characters.
C18_NoShortPasswordPersisted ==
    \A f \in DOMAIN vault : \A p \in Passwords, salt \in Salts :
        Len(p) < MIN_PASSWORD_LEN => vault[f].data # hash_password(p, salt)

\* C19: a rename, move, delete or open request leaves the bytes of every
\* credential file as they were; a credential file is gone afterwards only
\* if its item's directory is gone through a delete, or it is found with
\* the same bytes at the new path of a rename or move.
C19_RecordFollowsItem ==
    [][last'.op \in {"rename", "move", "delete", "open", "authenticate"}
       => \A f \in DOMAIN vault :
             IF f \in DOMAIN vault'
             THEN vault'[f] = vault[f]
             ELSE \/ last'.op = "delete" /\ dirname(f) \notin fs'
                  \/ /\ last'.op \in {"rename", "move"} /\ last'.result = "done"
                     /\ f = CredentialOf(last'.old)
                     /\ CredentialOf(last'.new) \in DOMAIN vault'
                     /\ vault'[CredentialOf(last'.new)] = vault[f]]_vars

\* the list a scan returned: one item per entry, classified by the marker,
\* folders before files, each kind by lower-cased display name
ScanResult(tree, base_path, list) ==
    LET E == Entries(tree, base_path)
    IN  /\ Len(list) = Cardinality(E)
        /\ \A p \in E : \E i \in DOMAIN list : Resolve(list[i].full_path) = p
        /\ \A i \in DOMAIN list :
              /\ list[i].name = basename(list[i].full_path)
              /\ list[i].item_type = IF startswith(list[i].name, MARK)
                                     THEN "folder" ELSE "file"
        /\ \A i, j \in DOMAIN list :
              i < j => /\ ~(list[i].item_type = "file" /\ list[j].item_type = "folder")
                       /\ list[i].item_type = list[j].item_type
                          => ~StrLess(lower(display_name(list[j])),
                                      lower(display_name(list[i])))

\* C20: a scan of a directory that is not there returns the empty list; any
\* other scan returns one item per entry, a Folder iff the entry's name
\* starts with the marker, folders before files and each kind in
\* non-decreasing order of lower-cased display name; a folder created with
\* display name N is afterwards listed once, as a Folder named N stored as
\* -__N.
C20_ScanSortedAndClassified ==
    [][/\ last'.op = "scan"
          => IF exists(fs, current_path)
             THEN ScanResult(fs, current_path, grid')
             ELSE grid' = <<>>
       /\ fs' # fs
          => /\ ScanResult(fs', current_path, grid')
             /\ \E t \in FolderTexts :
                   LET N == strip(t)
                       made == {i \in DOMAIN grid' :
                                   /\ grid'[i].item_type = "folder"
                                   /\ display_name(grid'[i]) = N}
                   IN  /\ Resolve(join(current_path, MARK \o N)) \in fs' \ fs
                       /\ Cardinality(made) = 1
                       /\ \A i \in made : grid'[i].name = MARK \o N]_vars

\* C20 witness: a scan has listed folder b before the files, and file a
\* before file B.
C20_Witness ==
    /\ last.op = "scan"
    /\ Len(grid) = 3
    /\ grid[1].item_type = "folder" /\ display_name(grid[1]) = nLb
    /\ grid[2].item_type = "file" /\ grid[2].name = nLa
    /\ grid[3].item_type = "file" /\ grid[3].name = nB

\* C21: navigate returns true and sets the current path to the folder's
\* path exactly when the name resolves to a Folder in the name map of the
\* last scan; otherwise it returns false and leaves the current path as it
\* was; in both cases the name map and the scanned list stay as they were.
C21_NavigateByNameMap ==
    [][last'.op = "navigate"
       => /\ UNCHANGED <<items, grid, fs>>
          /\ IF last'.arg \in DOMAIN items /\ items[last'.arg].item_type = "folder"
             THEN /\ last'.result = "true"
                  /\ current_path' = items[last'.arg].full_path \o SEP
             ELSE /\ last'.result = "false"
                  /\ current_path' = current_path]_vars

\* C21 witness: navigate has entered folder b inside folder A.
C21_Witness ==
    /\ last.op = "navigate" /\ last.result = "true" /\ last.arg = nLb
    /\ current_path = join(join(ROOT, MARK \o nA), MARK \o nLb) \o SEP

\* the number of directories between a path and the content root
Depth(p) == Cardinality({i \in 1..Len(p) : p[i] = "/"}) - 1

\* the current path after n calls of go_back
RECURSIVE BackN(_, _)
BackN(cur, n) ==
    IF n = 0 THEN cur ELSE BackN(FileSystemManager_go_back(cur).current_path, n - 1)

\* C22: back at the content root returns false and leaves the current path;
\* anywhere else it returns true and sets the current path to the parent
\* directory; the current path is always the content root or beneath it,
\* and as many calls of back as its depth lead to the content root.
C22_BackReachesRoot ==
    /\ [](/\ startswith(current_path, ROOT)
          /\ BackN(current_path, Depth(current_path)) = ROOT)
    /\ [][last'.op = "back"
          => IF current_path = ROOT
             THEN last'.result = "false" /\ current_path' = ROOT
             ELSE /\ last'.result = "true"
                  /\ current_path' = dirname(rstrip(current_path, "/")) \o SEP
                  /\ Depth(current_path') = Depth(current_path) - 1]_vars

\* C22 witness: back has led from folder b inside folder A to folder A.
C22_Witness ==
    /\ last.op = "back" /\ last.result = "true"
    /\ last.old = join(join(ROOT, MARK \o nA), MARK \o nLb) \o SEP
    /\ current_path = join(ROOT, MARK \o nA) \o SEP

\* C29: after a scan of a directory that exists, the name map holds exactly
\* the items of the scan: each item is found under its display name, and
\* no other name is in the map.
C29_NameMapHoldsTheScan ==
    [][(last'.op = "scan" /\ exists(fs, current_path))
       => /\ \A i \in DOMAIN grid' :
                /\ display_name(grid'[i]) \in DOMAIN items'
                /\ items'[display_name(grid'[i])] = grid'[i]
          /\ DOMAIN items' = {display_name(grid'[i]) : i \in DOMAIN grid'}]_vars

C25_FailureLeavesStateIntact ==
    [][(last'.op \in Mutations /\ last'.result = "fs_failed")
       => UNCHANGED <<fs, history_items, pinned_items, history_file, pin_file>>]_vars

\* the old password verifies against the stored record, the new one is not
\* empty and equals its confirmation
ChangeAccepted(f, old_pw, new_pw, confirm_pw) ==
    /\ vault[f].readable
    /\ ~verify_raises(vault[f].data)
    /\ verify_password(vault[f].data, old_pw)
    /\ new_pw # <<>>
    /\ new_pw = confirm_pw

\* the record of the item after a change verifies new_pw and, when asked,
\* no longer verifies old_pw
ChangedTo(f, old_pw, new_pw, old_must_fail) ==
    /\ f \in DOMAIN vault' /\ vault'[f].readable
    /\ ~verify_raises(vault'[f].data)
    /\ verify_password(vault'[f].data, new_pw)
    /\ old_must_fail => ~verify_password(vault'[f].data, old_pw)

C28_CreateAllOrNothing ==
    [][\A p \in fs' \ fs :
          ~startswith(basename(p), MARK)
              => Resolve(join(p, CONTENT_BIN)) \in DOMAIN vault']_vars

\* the index calls that end in a write of the history file, of the pin file
HistoryCalls == {"touch", "remove", "clear_history", "update_history"}
PinCalls == {"pin", "unpin", "clear_pins", "update_pins"}

\* C23: after a mutating index call whose write went through, the backing
\* file holds the in-memory list and an index constructed from it holds the
\* same records in the same order; constructing an index from a missing or
\* malformed file gives the empty index.
C23_FileHoldsTheIndex ==
    [][/\ (last'.op \in HistoryCalls /\ last'.result = "done")
          => /\ history_file' = history_items'
             /\ HistoryManager_load_history(history_file') = history_items'
       /\ (last'.op \in PinCalls /\ last'.result = "done")
          => /\ pin_file' = pinned_items'
             /\ PinManager_load_pins(pin_file') = pinned_items'
       /\ last'.op = "construct"
          => /\ history_file \in {MISSING, MALFORMED} => history_items' = <<>>
             /\ pin_file \in {MISSING, MALFORMED} => pinned_items' = <<>>]_vars

\* a touch was written after the two stored records had been read in: the
\* file holds three records, newest first
C23_Witness ==
    /\ last.op = "touch" /\ last.result = "done"
    /\ Len(history_file) = 3 /\ history_file = history_items
    /\ history_file[1].full_path = join(ROOT, nB)

\* C23 as stated: the backing file holds the in-memory list after every
\* mutating index call that returns.
C23_FileHoldsTheIndexAlways ==
    [][/\ last'.op \in HistoryCalls => history_file' = history_items'
       /\ last'.op \in PinCalls => pin_file' = pinned_items']_vars

\* the paths an index file names; a file that cannot be read names none
PersistedPaths(file) == IF file \in {MISSING, MALFORMED} THEN {} ELSE Paths(file)

\* C24: whatever the point at which execution stops between the filesystem
\* call of a rename, move or delete and the end of the index writes, a path
\* that a step brings into an index file is the path of an item that exists
\* before or after the step; the index files start empty, so every
\* persisted path is one at which an item existed at some time.
C24_PersistedPathsOnceExisted ==
    [][\A p \in PersistedPaths(history_file') \cup PersistedPaths(pin_file') :
          \/ p \in PersistedPaths(history_file) \cup PersistedPaths(pin_file)
          \/ Resolve(p) \in fs
          \/ Resolve(p) \in fs']_vars

\* execution stopped after a rename or move reached the disk and before the
\* history was written: the persisted record is stale
C24_Witness ==
    /\ last.op = "crash" /\ last.result = "after_fs"
    /\ last.old \in PersistedPaths(history_file)
    /\ Resolve(last.old) \notin fs

\* the steps of a request the state machine allows
Allowed ==
    {<<"requested", "validating">>, <<"validating", "rejected">>,
     <<"validating", "applying">>, <<"applying", "fs_failed">>, <<"applying", "fs_ok">>,
     <<"fs_ok", "index_syncing">>, <<"index_syncing", "done">>}

====
